---- MODULE Spec2Model ----
(***************************************************************************)
(* Barcode Inspector: the capture-and-persist pipeline of BarcodeApp.      *)
(*                                                                         *)
(* Spec     models src/BarCam.py (the current variant).                    *)
(* SpecOld  models src/Barcam.py (the older variant) on the same state.    *)
(* SpecFaults is BarCam.py for one order with the folder and log writes of *)
(* capture_image failing too; SpecPrior is BarCam.py opened on a log left  *)
(* by earlier runs; SpecPayload computes the identifier of one payload;     *)
(* SpecProbe runs the camera probes alone; SpecModal is BarCam.py with the *)
(* tick waiting in the dialog of capture_image; SpecTasks is BarCam.py     *)
(* with the beep threads it starts; SpecOrder is one Running period of     *)
(* BarCam.py from a fresh window.                                          *)
(*                                                                         *)
(* Text is a sequence of one-character strings.  A capture or serial       *)
(* handle is modelled by the state of the object the field refers to: the  *)
(* fields self.capture and self.serial_port are the only references the    *)
(* program keeps, so "None" / "open" / "released" / "unopened" of the      *)
(* field is the state of the referenced object.  What a handler does to   *)
(* a handle is kept in hw, with the state the handle was in: an "open"     *)
(* over a handle that was "open" drops the only reference to an open       *)
(* handle.                                                                 *)
(***************************************************************************)
EXTENDS Integers, Sequences, FiniteSets, TLC

\* ------------------------------------------------------------------ bounds
MaxSymbols == 2      \* symbols decoded from one frame
MaxLog     == 2      \* records over all order logs
MaxTable   == 2      \* rows of the display history

\* ------------------------------------------------------ program constants
max_scan   == 8      \* _scan_and_open_any_camera(max_scan=8)

\* --------------------------------------------------------------- the text
Str1(a)       == <<a>>
Str2(a, b)    == <<a, b>>
Str3(a, b, c) == <<a, b, c>>

Empty      == <<>>
NoOrder    == <<"N", "o", "O", "r", "d", "e", "r">>
manual     == <<"m", "a", "n", "u", "a", "l">>
nan        == <<"n", "a", "n">>
Digits     == {"0", "1", "2", "3", "4", "5", "6", "7", "8", "9"}

\* the payloads of the symbols in view, as barcode.data.decode("utf-8") gives them
Payloads   == { Str3("A", "-", "1"), Str2("0", "7") }

\* what pyzbar.decode returns for a frame: up to MaxSymbols symbols, in
\* decoder order; the empty list also when decode raises (lines 447-450).
\* A frame lists the symbols whose payload decodes as text: the loop passes
\* over the others (lines 455-458).
Frames     == UNION { [1..n -> Payloads] : n \in 0..MaxSymbols }

\* the characters str.strip() and str.split() treat as whitespace (of those
\* the payloads of the model use)
Whitespace == {" ", "\t"}

\* str.strip(): surrounding whitespace removed
RECURSIVE LStrip(_)
LStrip(s) == IF s # <<>> /\ Head(s) \in Whitespace THEN LStrip(Tail(s)) ELSE s

RECURSIVE RStrip(_)
RStrip(s) == IF s # <<>> /\ s[Len(s)] \in Whitespace
             THEN RStrip(SubSeq(s, 1, Len(s) - 1)) ELSE s

strip(s) == RStrip(LStrip(s))

\* the prefix of s before the first occurrence of character c
RECURSIVE Before(_, _)
Before(s, c) == IF s = <<>> \/ Head(s) = c THEN <<>>
                ELSE <<Head(s)>> \o Before(Tail(s), c)

\* the prefix of s before its first whitespace character
RECURSIVE Token(_)
Token(s) == IF s = <<>> \/ Head(s) \in Whitespace THEN <<>>
            ELSE <<Head(s)>> \o Token(Tail(s))

\* str.split()[0]: the first whitespace-separated token (callers check that
\* one exists)
FirstToken(s) == Token(LStrip(s))

\* the identifier without the cut at '-'
extract_sku_whole_token(barcode_value) ==
    IF LStrip(barcode_value) = <<>>
    THEN barcode_value
    ELSE FirstToken(barcode_value)

\* extract_sku: barcode_value.split()[0].split('-')[0]; split()[0] raises
\* IndexError when there is no token, and the except returns the argument
extract_sku(barcode_value) ==
    IF LStrip(barcode_value) = <<>>
    THEN barcode_value
    ELSE Before(FirstToken(barcode_value), "-")

\* order_input.text().strip() or "NoOrder"
OrderNumber(text) == IF strip(text) = <<>> THEN NoOrder ELSE strip(text)

\* ------------------------------------------------------------ the order log
\* One line of barcode_log.csv.  The header line is "Timestamp,SKU"; a record
\* line is "<YYYYMMDD-HHMMSS>,<sku>".  The wall clock is not modelled: the
\* timestamp of a line is a text without ',' that read_csv keeps as it is,
\* and only its format is kept where the program writes one.
Header        == [hdr |-> TRUE, sku |-> <<>>]
Rec(sku)      == [hdr |-> FALSE, sku |-> sku]

\* os.path.join(save_location, order_number): the order folder
Path(root, order_number) == <<root, order_number>>

CWD == "cwd"                     \* os.path.abspath(".")
Folders == {CWD}                 \* the folder the operator picks in the dialog
OrderTexts == {<<>>, Str1("X")}  \* what the operator types as order number

\* the records of a log, header lines left out
RECURSIVE Records(_)
Records(lines) ==
    IF lines = <<>> THEN <<>>
    ELSE IF Head(lines).hdr THEN Records(Tail(lines))
    ELSE <<Head(lines)>> \o Records(Tail(lines))

\* --- pandas.read_csv as load_existing_barcodes uses it ---------------------
IsNumeric(s) == s # <<>> /\ \A i \in 1..Len(s) : s[i] \in Digits

\* str(int(s)): leading zeros are gone
RECURSIVE IntStr(_)
IntStr(s) == IF Len(s) > 1 /\ Head(s) = "0" THEN IntStr(Tail(s)) ELSE s

\* the dtype read_csv infers for the SKU column from all its fields
ColumnType(rows) ==
    IF rows = <<>> THEN "object"
    ELSE IF \A i \in 1..Len(rows) : IsNumeric(rows[i].sku) THEN "int64"
    ELSE IF \A i \in 1..Len(rows) : IsNumeric(rows[i].sku) \/ rows[i].sku = <<>>
         THEN "float64"
    ELSE "object"

\* df['SKU'].astype(str): the text of one field under the column's dtype
\* (an empty field is NaN)
AsStr(dtype, field) ==
    IF field = <<>> THEN nan
    ELSE IF dtype = "int64" THEN IntStr(field)
    ELSE IF dtype = "float64" THEN IntStr(field) \o <<".", "0">>
    ELSE field

\* read_csv(log_path): "error" when it raises (no data at all) or when the
\* first line, which it takes for the column names, is not the header (then
\* df['SKU'] raises KeyError); else the data rows
read_csv(lines) ==
    IF lines = <<>> \/ ~Head(lines).hdr
    THEN [ok |-> FALSE, rows |-> <<>>]
    ELSE [ok |-> TRUE, rows |-> Tail(lines)]

\* --- the display history (sku_table) ---------------------------------------
\* add_to_table(timestamp, sku): one row, kept by the text of its SKU item
add_to_table(table, sku) == Append(table, sku)

\* the rows load_existing_barcodes adds for the rows of df: row['SKU'] is a
\* str in an object column (QTableWidgetItem(str): the text), an int in an
\* int64 column (QTableWidgetItem(int) is the item-type overload: an item
\* with no text), and a float in a float64 column or for NaN
\* (QTableWidgetItem(float) raises TypeError after the row and its timestamp
\* item were inserted; the except ends the loop)
RECURSIVE ReplayRows(_, _, _)
ReplayRows(table, dtype, rows) ==
    IF rows = <<>> THEN table
    ELSE LET r == Head(rows)
             isFloat == dtype = "float64" \/ r.sku = <<>>
         IN  IF isFloat THEN add_to_table(table, <<>>)
             ELSE IF dtype = "int64"
                  THEN ReplayRows(add_to_table(table, <<>>),
                                  dtype, Tail(rows))
             ELSE ReplayRows(add_to_table(table, r.sku),
                             dtype, Tail(rows))

\* ------------------------------------------------------- device resolution
\* A camera environment is the set of <<index, backend>> pairs that
\* cv2.VideoCapture opens; the backend "ANY" is VideoCapture(index) without a
\* backend flag.
\* The cases a start is tried in: camera_combo.currentText(), the platform
\* and the camera environment.
CameraCases ==
    { <<"0", "Linux",   {<<0, "ANY">>}>>,
      <<"1", "Darwin",  {<<1, "V4L2">>}>>,
      <<"",  "Windows", {<<7, "DSHOW">>, <<7, "ANY">>}>> }

_get_preferred_backend(plat) ==
    IF plat = "Linux" THEN "V4L2"
    ELSE IF plat = "Windows" THEN "DSHOW"
    ELSE "ANY"

\* try_open(index, backend_flag): the candidate opens or not; a candidate that
\* does not open is released and None is returned
try_open(index, backend_flag, world) == <<index, backend_flag>> \in world

\* the backends with the default tried before the preferred one
Attempts_default_first(plat) ==
    LET backend == _get_preferred_backend(plat)
    IN  <<"ANY">> \o (IF backend # "ANY" THEN <<backend>> ELSE <<>>)

\* the backends _open_camera_with_fallback attempts for one index, in order
Attempts(plat) ==
    LET backend == _get_preferred_backend(plat)
    IN  (IF backend # "ANY" THEN <<backend>> ELSE <<>>)
        \o <<"ANY">>
        \o (IF plat = "Windows" /\ "DSHOW" # backend THEN <<"DSHOW">> ELSE <<>>)
        \o (IF plat = "Linux" /\ "V4L2" # backend THEN <<"V4L2">> ELSE <<>>)

\* _open_camera_with_fallback(idx): TRUE when some attempt opens the camera
_open_camera_with_fallback(idx, plat, world) ==
    \E i \in 1..Len(Attempts(plat)) : try_open(idx, Attempts(plat)[i], world)

\* _scan_and_open_any_camera(max_scan): TRUE when an index 0..max_scan-1 opens
_scan_and_open_any_camera(plat, world) ==
    \E idx \in 0..(max_scan - 1) : _open_camera_with_fallback(idx, plat, world)

\* detect_cameras(max_test=8): the indexes the preferred backend opens
detect_cameras(plat, world) ==
    { index \in 0..(max_scan - 1) :
        try_open(index, _get_preferred_backend(plat), world) }

Min(S) == CHOOSE x \in S : \A y \in S : x <= y

\* start_camera lines 328-356: does the start obtain a capture handle
OpenCamera(selected_text, plat, world) ==
    LET detected  == detect_cameras(plat, world)
        use_index == IF selected_text = "0" THEN 0
                     ELSE IF selected_text = "1" THEN 1
                     ELSE IF detected # {} THEN Min(detected)
                     ELSE -1
    IN  IF use_index # -1
        THEN _open_camera_with_fallback(use_index, plat, world)
             \/ _scan_and_open_any_camera(plat, world)
        ELSE _scan_and_open_any_camera(plat, world)

\* ------------------------------------------------ the probes, step by step
\* What the three probing functions do to the capture handles they make.  A
\* camera world w says, for an index and a backend, whether
\* cv2.VideoCapture(index, backend) gives a handle that reports opened
\* (w.opens), raises (w.raises), or gives a handle that is not opened.
Outcome(index, backend_flag, w) ==
    IF <<index, backend_flag>> \in w.raises THEN "raises"
    ELSE IF <<index, backend_flag>> \in w.opens THEN "opens"
    ELSE "closed"

\* one handle a probe made (or failed to make) and what became of it:
\* "returned" to the caller, "released" by cap.release(), "destroyed" when
\* the last reference to it went away without a release() (CPython destroys
\* the object then), "none" when the constructor raised
Handle(index, backend_flag, outcome, end) ==
    [index |-> index, backend |-> backend_flag, outcome |-> outcome, end |-> end]

\* try_open lines 266-279
try_open_handle(index, backend_flag, w) ==
    LET outcome == Outcome(index, backend_flag, w)
    IN  Handle(index, backend_flag, outcome,
               IF outcome = "opens" THEN "returned"
               ELSE IF outcome = "closed" THEN "released"
               ELSE "none")

\* _open_camera_with_fallback lines 281-313: the handles made for one index,
\* over the backends still to try; the first that opens is returned
RECURSIVE fallback_trace(_, _, _, _)
fallback_trace(idx, backends, w, done) ==
    IF backends = <<>> THEN done
    ELSE LET h == try_open_handle(idx, Head(backends), w)
         IN  IF h.end = "returned" THEN Append(done, h)
             ELSE fallback_trace(idx, Tail(backends), w, Append(done, h))

Returned(trace) == trace # <<>> /\ trace[Len(trace)].end = "returned"

\* _scan_and_open_any_camera lines 391-404: indexes from idx up to
\* max_scan - 1
RECURSIVE scan_trace(_, _, _, _)
scan_trace(idx, plat, w, done) ==
    IF idx >= max_scan THEN done
    ELSE LET t == fallback_trace(idx, Attempts(plat), w, done)
         IN  IF Returned(t) THEN t ELSE scan_trace(idx + 1, plat, w, t)

\* one pass of the loop of detect_cameras with the release() of line 231
\* left out
detect_handle_unreleased(index, plat, w) ==
    LET backend == _get_preferred_backend(plat)
        outcome == Outcome(index, backend, w)
    IN  Handle(index, backend, outcome,
               IF outcome = "raises" THEN "none" ELSE "destroyed")

\* detect_cameras lines 223-234, one pass of the loop: a handle that reports
\* opened is released; one that does not is left to the next assignment of
\* cap or to the return
detect_handle(index, plat, w) ==
    LET backend == _get_preferred_backend(plat)
        outcome == Outcome(index, backend, w)
    IN  Handle(index, backend, outcome,
               IF outcome = "opens" THEN "released"
               ELSE IF outcome = "closed" THEN "destroyed"
               ELSE "none")

\* detect_cameras lines 222-235 (max_test = 8)
detect_trace(plat, w) ==
    [k \in 1..max_scan |-> detect_handle(k - 1, plat, w)]

\* the indexes, platforms and camera worlds the probes are run in
ProbeIndexes == {0, 7, 8}
Platforms    == {"Linux", "Windows", "Darwin"}
Backends     == {"V4L2", "DSHOW", "ANY"}
MaxCameras   == 2
Candidates   == ProbeIndexes \X Backends
ProbeWorlds  ==
    { [opens |-> o, raises |-> r] :
        o \in { s \in SUBSET Candidates : Cardinality(s) <= MaxCameras },
        r \in { s \in SUBSET Candidates : Cardinality(s) <= 1 } }

\* ---------------------------------------------------------------- the state
VARIABLES
    capture,        \* self.capture: "None", "open", "released" or "unopened"
    serial_port,    \* self.serial_port: "None", "open" or "closed"
    timerActive,    \* self.timer is running (30 ms period)
    barcode_set,    \* self.barcode_set
    last_barcode,   \* self.last_barcode: <<>> for None, <<text>> otherwise
    save_location,  \* self.save_location: "" or a folder
    order_input,    \* self.order_input.text()
    sku_table,      \* the rows of self.sku_table
    files,          \* the order logs on disk: order folder -> lines
    call,           \* the handler that ran last and what its inputs were
    hw,             \* what that handler did to the handles, in order
    wrote,          \* what that handler wrote to the serial link, in order
    tones,          \* the tones that handler started, in order
    notice,         \* the dialogs that handler showed, in order
    saved,          \* the image files that handler wrote, in order
    dialog,         \* the ticks waiting in a modal dialog they opened
    threads         \* the beep threads started and not yet finished

vars == << capture, serial_port, timerActive, barcode_set, last_barcode,
           save_location, order_input, sku_table, files,
           call, hw, wrote, tones, notice, saved, dialog, threads >>

\* the handler that ran last: its name and the inputs that were true
Call(name, frame, flags) ==
    [name |-> name, frame |-> frame, flags |-> flags \ {"beepSet", "beepChk"}]

\* one operation on a handle: which handle, what, and its state before
Hw(dev, op, was) == [dev |-> dev, op |-> op, was |-> was]

\* the disk the program starts on: no order log yet
InitialFiles == { <<>> }

\* __init__ lines 31-39
\* __init__, lines 23-55: the fields of a window that has handled nothing
Constructed ==
    /\ capture = "None"
    /\ serial_port = "None"
    /\ timerActive = FALSE
    /\ barcode_set = {}
    /\ last_barcode = <<>>
    /\ save_location = ""
    /\ order_input = <<>>
    /\ sku_table = <<>>
    /\ hw = <<>>
    /\ wrote = <<>>
    /\ tones = <<>>
    /\ notice = <<>>
    /\ saved = <<>>
    /\ dialog = <<>>
    /\ threads = <<>>

Init ==
    /\ Constructed
    /\ files \in InitialFiles
    /\ call = Call("init", <<>>, {})

\* the number of records over all logs
RECURSIVE TotalRecords(_, _)
TotalRecords(fs, paths) ==
    IF paths = {} THEN 0
    ELSE LET p == CHOOSE q \in paths : TRUE
         IN  Len(Records(fs[p])) + TotalRecords(fs, paths \ {p})

LogSize(fs) == TotalRecords(fs, DOMAIN fs)

\* the part of the state a tick or a snapshot works on
Work == [ set |-> barcode_set, last |-> last_barcode, table |-> sku_table,
          files |-> files, saved |-> <<>>, save |-> save_location,
          tones |-> <<>>, wrote |-> <<>>, notice |-> <<>>, raised |-> FALSE ]

\* what the handler reads besides: the order text, the serial
\* link, the settings flag and the check box, and which I/O calls fail
Env(flags) == [ order |-> order_input, serial |-> serial_port,
                flags |-> flags ]

\* ------------------------------------------------------------ persistence
\* the image file <order folder>/<sku>_<YYYYMMDD-HHMMSS>.jpg
Image(order_folder, sku_value) == <<order_folder, sku_value>>

\* capture_image with the image taken back when the log append fails
capture_image_rollback(s, sku_value, e) ==
    LET s1 == IF s.save = ""
              THEN [s EXCEPT !.save = CWD, !.notice = Append(@, "no_folder")]
              ELSE s
        order_folder == Path(s1.save, OrderNumber(e.order))
        file_exists == order_folder \in DOMAIN s.files
        before == IF file_exists THEN s.files[order_folder] ELSE <<>>
        lines == (IF file_exists THEN before ELSE <<Header>>)
                 \o <<Rec(sku_value)>>
    IN  IF "dirFail" \in e.flags THEN [s1 EXCEPT !.raised = TRUE]
        ELSE
        [s1 EXCEPT
           !.saved = IF e.flags \cap {"imgFail", "logFail", "logCut"} # {} THEN @
                     ELSE Append(@, Image(order_folder, sku_value)),
           !.tones = IF "beepSet" \in e.flags /\ "beepChk" \in e.flags
                     THEN Append(@, "success") ELSE @,
           !.files = IF "logFail" \in e.flags THEN @
                     ELSE [q \in DOMAIN s.files \cup {order_folder} |->
                              IF q # order_folder THEN s.files[q]
                              ELSE IF "logCut" \in e.flags THEN before
                              ELSE lines]]

\* capture_image with the log opened for writing, not for appending
capture_image_rewrites(s, sku_value, e) ==
    LET s1 == IF s.save = ""
              THEN [s EXCEPT !.save = CWD, !.notice = Append(@, "no_folder")]
              ELSE s
        order_folder == Path(s1.save, OrderNumber(e.order))
    IN  IF "dirFail" \in e.flags THEN [s1 EXCEPT !.raised = TRUE]
        ELSE
        [s1 EXCEPT
           !.saved = IF "imgFail" \in e.flags THEN @
                     ELSE Append(@, Image(order_folder, sku_value)),
           !.tones = IF "beepSet" \in e.flags /\ "beepChk" \in e.flags
                     THEN Append(@, "success") ELSE @,
           !.files = IF "logFail" \in e.flags THEN @
                     ELSE [q \in DOMAIN s.files \cup {order_folder} |->
                              IF q # order_folder THEN s.files[q]
                              ELSE IF "logCut" \in e.flags THEN <<>>
                              ELSE <<Header, Rec(sku_value)>>]]

\* capture_image(frame, sku_value), lines 518-548.  The calls that can fail:
\* os.makedirs (dirFail; line 527 is outside every try, the exception leaves
\* capture_image), cv2.imwrite (imgFail, caught), and the log append, where
\* either open raises and no file is made (logFail), or open makes or opens
\* the file and the buffered writes fail when flushed, as on a full disk
\* (logCut: the file is there with what it held before); both are caught.
capture_image(s, sku_value, e) ==
    LET s1 == IF s.save = ""
              THEN [s EXCEPT !.save = CWD, !.notice = Append(@, "no_folder")]
              ELSE s
        order_folder == Path(s1.save, OrderNumber(e.order))
        file_exists == order_folder \in DOMAIN s.files
        before == IF file_exists THEN s.files[order_folder] ELSE <<>>
        lines == (IF file_exists THEN before ELSE <<Header>>)
                 \o <<Rec(sku_value)>>
    IN  IF "dirFail" \in e.flags THEN [s1 EXCEPT !.raised = TRUE]
        ELSE
        [s1 EXCEPT
           !.saved = IF "imgFail" \in e.flags THEN @
                     ELSE Append(@, Image(order_folder, sku_value)),
           !.tones = IF "beepSet" \in e.flags /\ "beepChk" \in e.flags
                     THEN Append(@, "success") ELSE @,
           !.files = IF "logFail" \in e.flags THEN @
                     ELSE [q \in DOMAIN s.files \cup {order_folder} |->
                              IF q # order_folder THEN s.files[q]
                              ELSE IF "logCut" \in e.flags THEN before
                              ELSE lines]]

\* df['SKU'].astype(str).tolist(), line 668
SkuList(rows) == [i \in 1..Len(rows) |-> AsStr(ColumnType(rows), rows[i].sku)]

\* load_existing_barcodes(order_number), lines 662-674, on the dedup set and
\* the display history
load_existing_barcodes(set, table, fs, root, order_number) ==
    LET log_path == Path(root, order_number)
        df == read_csv(fs[log_path])
        skus == SkuList(df.rows)
    IN  IF log_path \notin DOMAIN fs THEN [set |-> {}, table |-> table]
        ELSE IF ~df.ok THEN [set |-> {}, table |-> table]
        ELSE [ set   |-> { skus[i] : i \in 1..Len(skus) },
               table |-> ReplayRows(<<>>, ColumnType(df.rows), df.rows) ]

\* ------------------------------------------------------------ the tick
\* update_frame lines 474-484: a symbol whose identifier is new
record_symbol(s, barcode_data, sku_id, e) ==
    LET s2 == capture_image([s EXCEPT !.set = @ \cup {sku_id}], sku_id, e)
    IN  IF s2.raised THEN s2
        ELSE
        [s2 EXCEPT
           !.last = <<barcode_data>>,
           !.table = add_to_table(@, sku_id),
           !.wrote = IF e.serial # "None" /\ "serFail" \notin e.flags
                     THEN Append(@, barcode_data \o <<"\n">>) ELSE @,
           !.tones = IF e.serial # "None" /\ "serFail" \in e.flags
                        /\ "beepSet" \in e.flags
                     THEN Append(@, "failure") ELSE @]

\* one decoded symbol, deduplicated as the older variant does it: against the
\* last payload only
process_symbol_by_last(s, data, e) ==
    IF <<strip(data)>> = s.last THEN s
    ELSE record_symbol(s, strip(data), extract_sku(strip(data)), e)

\* one decoded symbol, with the membership test left out
process_symbol_always(s, data, e) ==
    record_symbol(s, strip(data), extract_sku(strip(data)), e)

\* update_frame lines 454-484: one decoded symbol
process_symbol(s, data, e) ==
    LET barcode_data == strip(data)
        sku_id == extract_sku(barcode_data)
    IN  IF sku_id \in s.set THEN s
        ELSE record_symbol(s, barcode_data, sku_id, e)

\* the for loop of update_frame over the decoded symbols; an exception that
\* leaves capture_image leaves the loop and update_frame
RECURSIVE process_all(_, _, _)
process_all(s, barcodes, e) ==
    IF barcodes = <<>> \/ s.raised THEN s
    ELSE process_all(process_symbol(s, Head(barcodes), e), Tail(barcodes), e)

\* the bounds on what a handler may leave behind
Fits(s) ==
    /\ LogSize(s.files) <= MaxLog
    /\ Len(s.table) <= MaxTable

\* the inputs of a tick or snapshot besides the frame: the settings flag
\* "beep_enabled" (beepSet), the check box (beepChk), and the calls that fail
\* the cases a tick or a snapshot is run in
TickCases == { {}, {"beepSet", "beepChk"},
               {"beepSet", "beepChk", "imgFail"}, {"beepSet", "beepChk", "logFail"},
               {"beepSet", "beepChk", "serFail"}, {"beepSet", "serFail"} }
\* the same with the cases in which the order folder cannot be made or the
\* log file is made and not written
FaultCases == TickCases \cup { {"beepSet", "beepChk", "logCut"}, {"dirFail"} }
ReadFailures == {"readRaises", "readFalse", "readNone"}

\* ------------------------------------------------------------ the handlers
\* stop_camera lines 406-421: what it does to the handles
StopHw(cap, ser) ==
    (IF cap # "None" THEN <<Hw("capture", "release", cap)>> ELSE <<>>)
    \o (IF ser # "None" THEN <<Hw("serial", "close", ser)>> ELSE <<>>)

\* stop_camera as the older variant has it: the handles are released and
\* closed but the fields keep referring to them
stop_camera_keeps_fields ==
    /\ timerActive' = FALSE
    /\ capture' = IF capture # "None" THEN "released" ELSE "None"
    /\ serial_port' = IF serial_port # "None" THEN "closed" ELSE "None"
    /\ hw' = StopHw(capture, serial_port)
    /\ UNCHANGED << dialog, threads >>
    /\ call' = Call("stop_camera", <<>>, {})
    /\ wrote' = <<>>
    /\ tones' = <<>>
    /\ saved' = <<>>
    /\ notice' = <<>>
    /\ UNCHANGED << barcode_set, last_barcode, save_location, order_input,
                    sku_table, files >>

\* stop_camera, lines 406-421
stop_camera ==
    /\ timerActive' = FALSE
    /\ capture' = "None"
    /\ serial_port' = "None"
    /\ hw' = StopHw(capture, serial_port)
    /\ UNCHANGED << dialog, threads >>
    /\ call' = Call("stop_camera", <<>>, {})
    /\ wrote' = <<>>
    /\ tones' = <<>>
    /\ saved' = <<>>
    /\ notice' = <<>>
    /\ UNCHANGED << barcode_set, last_barcode, save_location, order_input,
                    sku_table, files >>

\* start_camera lines 316-323: the serial port is selected and does not open
start_serial_fails ==
    /\ UNCHANGED << dialog, threads >>
    /\ call' = Call("start_camera", <<>>, {"serialSel", "serialFail"})
    /\ hw' = <<>>
    /\ wrote' = <<>>
    /\ tones' = <<>>
    /\ saved' = <<>>
    /\ notice' = <<"serial_error">>
    /\ UNCHANGED << capture, serial_port, timerActive, barcode_set,
                    last_barcode, save_location, order_input, sku_table,
                    files >>

\* start_camera lines 316-325: self.serial_port after the serial step
StartSerial(selected) == IF selected THEN "open" ELSE "None"

\* start_camera lines 358-361: no camera could be opened
start_camera_fails(selected) ==
    /\ serial_port' = StartSerial(selected)
    /\ UNCHANGED << dialog, threads >>
    /\ call' = Call("start_camera", <<>>,
                    (IF selected THEN {"serialSel"} ELSE {}) \cup {"cameraFail"})
    /\ hw' = IF selected THEN <<Hw("serial", "open", serial_port)>> ELSE <<>>
    /\ wrote' = <<>>
    /\ tones' = <<>>
    /\ saved' = <<>>
    /\ notice' = <<"camera_error">>
    /\ UNCHANGED << capture, timerActive, barcode_set, last_barcode,
                    save_location, order_input, sku_table, files >>

\* a start that opens the camera and leaves the timer as it is
start_camera_succeeds_no_timer(selected) ==
    LET replay == load_existing_barcodes(barcode_set, sku_table, files,
                                         save_location, OrderNumber(order_input))
    IN  /\ serial_port' = StartSerial(selected)
        /\ capture' = "open"
        /\ barcode_set' = IF save_location # "" THEN replay.set ELSE barcode_set
        /\ sku_table' = IF save_location # "" THEN replay.table ELSE sku_table
        /\ timerActive' = timerActive
        /\ UNCHANGED << dialog, threads >>
        /\ call' = Call("start_camera", <<>>,
                        IF selected THEN {"serialSel"} ELSE {})
        /\ hw' = (IF selected THEN <<Hw("serial", "open", serial_port)>> ELSE <<>>)
                 \o <<Hw("capture", "open", capture)>>
        /\ wrote' = <<>>
        /\ tones' = <<>>
        /\ saved' = <<>>
        /\ notice' = <<>>
        /\ UNCHANGED << last_barcode, save_location, order_input, files >>

\* start_camera lines 363-384: a camera was opened
start_camera_succeeds(selected) ==
    LET replay == load_existing_barcodes(barcode_set, sku_table, files,
                                         save_location, OrderNumber(order_input))
    IN  /\ serial_port' = StartSerial(selected)
        /\ capture' = "open"
        /\ barcode_set' = IF save_location # "" THEN replay.set ELSE barcode_set
        /\ sku_table' = IF save_location # "" THEN replay.table ELSE sku_table
        /\ timerActive' = TRUE
        /\ UNCHANGED << dialog, threads >>
        /\ call' = Call("start_camera", <<>>,
                        IF selected THEN {"serialSel"} ELSE {})
        /\ hw' = (IF selected THEN <<Hw("serial", "open", serial_port)>> ELSE <<>>)
                 \o <<Hw("capture", "open", capture)>>
        /\ wrote' = <<>>
        /\ tones' = <<>>
        /\ saved' = <<>>
        /\ notice' = <<>>
        /\ UNCHANGED << last_barcode, save_location, order_input, files >>

\* start_camera, lines 315-384
start_camera ==
    \E serial_selection \in {"None", "COM1"} :
        \/ serial_selection # "None" /\ start_serial_fails
        \/ \E c \in CameraCases :
              IF OpenCamera(c[1], c[2], c[3])
              THEN start_camera_succeeds(serial_selection # "None")
              ELSE start_camera_fails(serial_selection # "None")

\* a failed read as the older variant treats it: the tick returns and the
\* timer goes on
update_frame_read_ignored(how) ==
    /\ how \in ReadFailures
    /\ hw' = <<Hw("capture", "read", capture)>>
    /\ UNCHANGED << dialog, threads >>
    /\ call' = Call("update_frame", <<>>, {"readFail"})
    /\ wrote' = <<>>
    /\ tones' = <<>>
    /\ saved' = <<>>
    /\ notice' = <<>>
    /\ UNCHANGED << capture, serial_port, timerActive, barcode_set,
                    last_barcode, save_location, order_input, sku_table,
                    files >>

\* update_frame lines 439-444: the read failed
update_frame_read_fails(how) ==
    /\ timerActive' = FALSE
    /\ capture' = "None"
    /\ serial_port' = "None"
    /\ hw' = <<Hw("capture", "read", capture)>> \o StopHw(capture, serial_port)
    /\ how \in ReadFailures
    /\ UNCHANGED << dialog, threads >>
    /\ call' = Call("update_frame", <<>>, {"readFail"})
    /\ wrote' = <<>>
    /\ tones' = <<>>
    /\ saved' = <<>>
    /\ notice' = <<"camera_disconnected">>
    /\ UNCHANGED << barcode_set, last_barcode, save_location, order_input,
                    sku_table, files >>

\* update_frame lines 446-509: a frame was read and barcodes decoded from it
update_frame_decodes(barcodes, flags) ==
    \E s \in {process_all(Work, barcodes, Env(flags))} :
        /\ Fits(s)
        /\ barcode_set' = s.set
        /\ last_barcode' = s.last
        /\ sku_table' = s.table
        /\ files' = s.files
        /\ saved' = s.saved
        /\ save_location' = s.save
        /\ tones' = s.tones
        /\ wrote' = s.wrote
        /\ notice' = s.notice
        /\ hw' = <<Hw("capture", "read", capture)>>
        /\ UNCHANGED << dialog, threads >>
        /\ call' = Call("update_frame", barcodes,
                        flags \cup (IF s.raised THEN {"raised"} ELSE {}))
        /\ UNCHANGED << capture, serial_port, timerActive, order_input >>

\* update_frame lines 431-432: no capture, nothing happens
update_frame_idle ==
    /\ UNCHANGED << dialog, threads >>
    /\ call' = Call("update_frame", <<>>, {"noCapture"})
    /\ hw' = <<>>
    /\ wrote' = <<>>
    /\ tones' = <<>>
    /\ saved' = <<>>
    /\ notice' = <<>>
    /\ UNCHANGED << capture, serial_port, timerActive, barcode_set,
                    last_barcode, save_location, order_input, sku_table,
                    files >>

\* the inputs that can make a difference to this tick: the beep settings and
\* the failing calls matter only when a symbol of the frame is new, a serial
\* failure only when a link is held
TickInputs(barcodes, cases) ==
    IF \A i \in 1..Len(barcodes) : extract_sku(strip(barcodes[i])) \in barcode_set
    THEN { {} }
    ELSE { g \in cases : "serFail" \in g => serial_port # "None" }

\* update_frame, lines 430-509, run by the timer's timeout
update_frame_in(cases) ==
    /\ timerActive
    /\ IF capture = "None" THEN update_frame_idle
       ELSE \/ \E how \in ReadFailures : update_frame_read_fails(how)
            \/ \E barcodes \in Frames :
                 \E flags \in TickInputs(barcodes, cases) :
                    update_frame_decodes(barcodes, flags)

update_frame == update_frame_in(TickCases)

\* a snapshot that is deduplicated on the identifier "manual"
capture_snapshot_deduped(flags) ==
    \E s \in {IF manual \in barcode_set THEN Work
               ELSE capture_image(Work, manual, Env(flags))} :
        /\ Fits(s)
        /\ files' = s.files
        /\ saved' = s.saved
        /\ save_location' = s.save
        /\ tones' = s.tones
        /\ notice' = s.notice
        /\ wrote' = <<>>
        /\ hw' = <<Hw("capture", "read", capture)>>
        /\ UNCHANGED << dialog, threads >>
        /\ call' = Call("capture_snapshot", <<>>,
                        flags \cup (IF s.raised THEN {"raised"} ELSE {}))
        /\ barcode_set' = barcode_set \cup {manual}
        /\ UNCHANGED << capture, serial_port, timerActive,
                        last_barcode, order_input, sku_table >>

\* capture_snapshot lines 551-560, a capture is held: the read gave a frame
capture_snapshot_saves(flags) ==
    \E s \in {capture_image(Work, manual, Env(flags))} :
        /\ Fits(s)
        /\ files' = s.files
        /\ saved' = s.saved
        /\ save_location' = s.save
        /\ tones' = s.tones
        /\ notice' = s.notice
        /\ wrote' = <<>>
        /\ hw' = <<Hw("capture", "read", capture)>>
        /\ UNCHANGED << dialog, threads >>
        /\ call' = Call("capture_snapshot", <<>>,
                        flags \cup (IF s.raised THEN {"raised"} ELSE {}))
        /\ UNCHANGED << capture, serial_port, timerActive, barcode_set,
                        last_barcode, order_input, sku_table >>

\* capture_snapshot lines 559-560, a capture is held: the read failed
capture_snapshot_read_fails(how) ==
    /\ how \in ReadFailures
    /\ hw' = <<Hw("capture", "read", capture)>>
    /\ UNCHANGED << dialog, threads >>
    /\ call' = Call("capture_snapshot", <<>>, {"readFail"})
    /\ wrote' = <<>>
    /\ tones' = <<>>
    /\ saved' = <<>>
    /\ notice' = <<"snapshot_error">>
    /\ UNCHANGED << capture, serial_port, timerActive, barcode_set,
                    last_barcode, save_location, order_input, sku_table,
                    files >>

\* capture_snapshot line 551, no capture is held: the handler does nothing
capture_snapshot_idle ==
    /\ UNCHANGED << dialog, threads >>
    /\ call' = Call("capture_snapshot", <<>>, {"noCapture"})
    /\ hw' = <<>>
    /\ wrote' = <<>>
    /\ tones' = <<>>
    /\ saved' = <<>>
    /\ notice' = <<>>
    /\ UNCHANGED << capture, serial_port, timerActive, barcode_set,
                    last_barcode, save_location, order_input, sku_table,
                    files >>

\* capture_snapshot, lines 550-560
capture_snapshot_in(cases) ==
    IF capture = "None" THEN capture_snapshot_idle
    ELSE \/ \E how \in ReadFailures : capture_snapshot_read_fails(how)
         \/ \E g \in { c \in cases : "serFail" \notin c } :
               capture_snapshot_saves(g)

capture_snapshot == capture_snapshot_in(TickCases)

\* clear_session, lines 582-589
clear_session ==
    /\ barcode_set' = {}
    /\ last_barcode' = <<>>
    /\ sku_table' = <<>>
    /\ UNCHANGED << dialog, threads >>
    /\ call' = Call("clear_session", <<>>, {})
    /\ hw' = <<>>
    /\ wrote' = <<>>
    /\ tones' = <<>>
    /\ saved' = <<>>
    /\ notice' = <<"session_cleared">>
    /\ UNCHANGED << capture, serial_port, timerActive, save_location,
                    order_input, files >>

\* select_folder, lines 423-427, when the dialog returns a folder (when it is
\* cancelled the handler changes nothing)
select_folder ==
    \E folder \in Folders :
        /\ save_location' = folder
        /\ notice' = <<"folder_selected">>
        /\ UNCHANGED << dialog, threads >>
        /\ call' = Call("select_folder", <<>>, {})
        /\ hw' = <<>>
        /\ wrote' = <<>>
        /\ tones' = <<>>
        /\ saved' = <<>>
        /\ UNCHANGED << capture, serial_port, timerActive, barcode_set,
                        last_barcode, order_input, sku_table, files >>

\* the operator edits the order number (the QLineEdit of line 70)
edit_order ==
    \E text \in OrderTexts \ {order_input} :
        /\ order_input' = text
        /\ UNCHANGED << dialog, threads >>
        /\ call' = Call("edit_order", <<>>, {})
        /\ hw' = <<>>
        /\ wrote' = <<>>
        /\ tones' = <<>>
        /\ notice' = <<>>
        /\ saved' = <<>>
        /\ UNCHANGED << capture, serial_port, timerActive, barcode_set,
                        last_barcode, save_location, sku_table, files >>

Next ==
    \/ start_camera
    \/ stop_camera
    \/ update_frame
    \/ capture_snapshot
    \/ clear_session
    \/ select_folder
    \/ edit_order

Spec == Init /\ [][Next]_vars

\* ------------------------------------------------ failing folder and log I/O
\* The handlers of one order (the order number is left as it is), with the
\* ticks and snapshots run in the fault cases too.
update_frame_faults == update_frame_in(FaultCases)
capture_snapshot_faults == capture_snapshot_in(FaultCases)

NextFaults ==
    \/ start_camera
    \/ stop_camera
    \/ update_frame_faults
    \/ capture_snapshot_faults
    \/ clear_session
    \/ select_folder

SpecFaults == Init /\ [][NextFaults]_vars

\* ------------------------------------------------- a log of earlier runs
\* The window is opened in a working directory where earlier runs of the
\* program have left the log of the default order: the header and up to
\* MaxPrior records, as capture_image appends them for the payloads "07", "7"
\* and "A-1".
MaxPrior == 2
PriorSkus == { Str2("0", "7"), Str1("7"), Str1("A") }
PriorLogs ==
    { <<Header>> \o [i \in 1..Len(skus) |-> Rec(skus[i])] :
        skus \in UNION { [1..n -> PriorSkus] : n \in 1..MaxPrior } }
PriorFiles == { [p \in {Path(CWD, NoOrder)} |-> log] : log \in PriorLogs }

InitPrior ==
    /\ Constructed
    /\ files \in PriorFiles
    /\ call = Call("init", <<>>, {})

NextPrior ==
    \/ start_camera
    \/ stop_camera
    \/ update_frame
    \/ clear_session
    \/ select_folder

SpecPrior == InitPrior /\ [][NextPrior]_vars

\* ------------------------------------------- the identifier of one payload
\* the payload texts the identifier is computed for
MaxPayload == 4
PayloadTexts ==
    UNION { [1..n -> {"S", "-", " ", "\t"}] : n \in 0..MaxPayload }

\* payload bytes that are not UTF-8 text: barcode.data.decode("utf-8") raises
Undecodable == Str1("xFF")

\* a symbol with some payload is in view
InitPayload ==
    /\ Constructed
    /\ files = <<>>
    /\ \E data \in PayloadTexts \cup {Undecodable} :
          call = [name |-> "decoded", frame |-> <<data>>, flags |-> {}]

\* update_frame lines 454-474 on that symbol, from an empty dedup set: a
\* payload that does not decode is passed over by the continue of line 458;
\* for a text, the stripped payload and the identifier extract_sku gives
symbol_identifier ==
    /\ call.name = "decoded"
    /\ IF call.frame[1] = Undecodable
       THEN /\ call' = Call("continue", call.frame, {})
            /\ UNCHANGED << last_barcode, barcode_set >>
       ELSE /\ call' = Call("extract_sku", call.frame, {})
            /\ last_barcode' = <<strip(call.frame[1])>>
            /\ barcode_set' = {extract_sku(strip(call.frame[1]))}
    /\ UNCHANGED << capture, serial_port, timerActive, save_location,
                    order_input, sku_table, files, hw, wrote, tones, notice,
                    saved, dialog, threads >>

NextPayload == symbol_identifier

SpecPayload == InitPayload /\ [][NextPayload]_vars

\* --------------------------------------------- the tick in a modal dialog
\* QMessageBox.information (capture_image line 523) returns when the operator
\* closes the box; until then it runs an event loop of its own, in which the
\* timer started at line 383 keeps firing: each timeout calls update_frame
\* inside the call that opened the box.  The window takes no input while the
\* box is up.

\* the place in barcodes of the first symbol whose identifier is not in set,
\* 0 when there is none
FirstNew(barcodes, set) ==
    LET new == { i \in 1..Len(barcodes) :
                    extract_sku(strip(barcodes[i])) \notin set }
    IN  IF new = {} THEN 0 ELSE Min(new)

\* update_frame lines 433-475 and capture_image lines 519-523: with no folder
\* chosen the tick comes to its first new symbol, puts the identifier in the
\* set, takes the working directory as folder and waits in the dialog
update_frame_opens_dialog(barcodes, flags) ==
    LET at == FirstNew(barcodes, barcode_set)
    IN  /\ save_location = "" /\ at # 0
        /\ barcode_set' = barcode_set \cup {extract_sku(strip(barcodes[at]))}
        /\ save_location' = CWD
        /\ notice' = <<"no_folder">>
        /\ dialog' = Append(dialog, [frame |-> barcodes, at |-> at, flags |-> flags])
        /\ hw' = <<Hw("capture", "read", capture)>>
        /\ wrote' = <<>>
        /\ tones' = <<>>
        /\ saved' = <<>>
        /\ call' = Call("update_frame", barcodes, flags \cup {"inDialog"})
        /\ UNCHANGED << capture, serial_port, timerActive, last_barcode,
                        order_input, sku_table, files, threads >>

\* update_frame, lines 430-509, up to its return or to the dialog
update_frame_modal ==
    /\ timerActive
    /\ IF capture = "None" THEN update_frame_idle
       ELSE \/ \E how \in ReadFailures : update_frame_read_fails(how)
            \/ \E barcodes \in Frames :
                 \E flags \in TickInputs(barcodes, TickCases) :
                    IF save_location = "" /\ FirstNew(barcodes, barcode_set) # 0
                    THEN update_frame_opens_dialog(barcodes, flags)
                    ELSE update_frame_decodes(barcodes, flags)

\* the operator closes the box: capture_image goes on from line 525 and
\* update_frame from line 476, on the frame the tick had read and on the
\* fields as they are now
dialog_closed ==
    /\ dialog # <<>>
    /\ LET d    == dialog[Len(dialog)]
           data == strip(d.frame[d.at])
           e    == Env(d.flags)
           rest == SubSeq(d.frame, d.at + 1, Len(d.frame))
       IN  \E s \in {process_all(record_symbol(Work, data, extract_sku(data), e),
                                  rest, e)} :
              /\ Fits(s)
              /\ barcode_set' = s.set
              /\ last_barcode' = s.last
              /\ sku_table' = s.table
              /\ files' = s.files
              /\ saved' = s.saved
              /\ save_location' = s.save
              /\ tones' = s.tones
              /\ wrote' = s.wrote
              /\ notice' = s.notice
              /\ hw' = <<>>
              /\ dialog' = SubSeq(dialog, 1, Len(dialog) - 1)
              /\ call' = Call("update_frame", d.frame, d.flags \cup {"resumed"})
              /\ UNCHANGED << capture, serial_port, timerActive, order_input,
                              threads >>

\* the Start and Stop buttons: clicked only while no box is up
start_camera_clicked == dialog = <<>> /\ start_camera
stop_camera_clicked  == dialog = <<>> /\ stop_camera

NextModal ==
    \/ start_camera_clicked
    \/ stop_camera_clicked
    \/ update_frame_modal
    \/ dialog_closed

SpecModal == Init /\ [][NextModal]_vars

\* ------------------------------------------------------- the beep threads
\* play_sound (lines 599-618) starts a daemon thread for each tone; the
\* thread runs beep(), whose only free variable is the flag success.  The
\* serial forward (line 480) is a call made by update_frame itself.  A thread
\* is started inside capture_image or update_frame and runs beside the rest
\* of that handler; it is kept in threads from the handler's return on.
MaxThreads == 2

\* the threads play_sound has started for the tones of one handler
Started(tone_list) ==
    [i \in 1..Len(tone_list) |-> [success |-> tone_list[i] = "success"]]

\* update_frame lines 446-509 with the threads of play_sound
update_frame_starts_threads(barcodes, flags) ==
    \E s \in {process_all(Work, barcodes, Env(flags))} :
        /\ Fits(s)
        /\ Len(threads) + Len(s.tones) <= MaxThreads
        /\ barcode_set' = s.set
        /\ last_barcode' = s.last
        /\ sku_table' = s.table
        /\ files' = s.files
        /\ saved' = s.saved
        /\ save_location' = s.save
        /\ tones' = s.tones
        /\ wrote' = s.wrote
        /\ notice' = s.notice
        /\ threads' = threads \o Started(s.tones)
        /\ hw' = <<Hw("capture", "read", capture)>>
        /\ call' = Call("update_frame", barcodes,
                        flags \cup (IF s.raised THEN {"raised"} ELSE {}))
        /\ UNCHANGED << capture, serial_port, timerActive, order_input, dialog >>

\* update_frame, lines 430-509
update_frame_tasks ==
    /\ timerActive
    /\ IF capture = "None" THEN update_frame_idle
       ELSE \/ \E how \in ReadFailures : update_frame_read_fails(how)
            \/ \E barcodes \in Frames :
                 \E flags \in TickInputs(barcodes, TickCases) :
                    update_frame_starts_threads(barcodes, flags)

\* a beep thread that also writes to the serial link
beep_thread_through_link ==
    \E i \in 1..Len(threads) :
        /\ threads' = SubSeq(threads, 1, i - 1) \o SubSeq(threads, i + 1, Len(threads))
        /\ wrote' = Append(wrote, <<"\n">>)
        /\ UNCHANGED << capture, serial_port, timerActive, barcode_set,
                        last_barcode, save_location, order_input, sku_table,
                        files, call, hw, tones, notice, saved, dialog >>

\* beep, lines 600-616, run by one of the threads to its end: winsound.Beep
\* or the play command with the frequency and duration picked by success
beep_thread ==
    \E i \in 1..Len(threads) :
        /\ threads' = SubSeq(threads, 1, i - 1) \o SubSeq(threads, i + 1, Len(threads))
        /\ UNCHANGED << capture, serial_port, timerActive, barcode_set,
                        last_barcode, save_location, order_input, sku_table,
                        files, call, hw, wrote, tones, notice, saved, dialog >>

NextTasks ==
    \/ start_camera
    \/ stop_camera
    \/ update_frame_tasks
    \/ select_folder
    \/ beep_thread

SpecTasks == Init /\ [][NextTasks]_vars

\* ------------------------------------------------- one Running period
\* A window that has handled nothing (no folder chosen, order field empty,
\* no log on disk) is started once and not stopped by the operator; while
\* the timer runs the operator edits the order number and picks a folder
\* between the ticks and snapshots.
start_camera_once   == call.name = "init" /\ start_camera
edit_order_running  == timerActive /\ edit_order
select_folder_running == timerActive /\ select_folder

NextOrder ==
    \/ start_camera_once
    \/ update_frame
    \/ capture_snapshot
    \/ edit_order_running
    \/ select_folder_running

SpecOrder == Init /\ [][NextOrder]_vars

\* ------------------------------------------------------ the probes alone
\* A probe is asked for (index, platform, camera world); each action runs
\* one probing function to its return and leaves in hw the handles it made.
InitProbe ==
    /\ Constructed
    /\ files = <<>>
    /\ \E idx \in ProbeIndexes, plat \in Platforms, w \in ProbeWorlds :
          /\ w.opens \cap w.raises = {}
          /\ call = [name |-> "probe", frame |-> <<idx, plat, w>>, flags |-> {}]

Probed(name, trace) ==
    /\ call.name = "probe"
    /\ hw' = trace
    /\ UNCHANGED << dialog, threads >>
    /\ call' = Call(name, call.frame,
                    IF Returned(trace) THEN {"cap"} ELSE {"None"})
    /\ UNCHANGED << capture, serial_port, timerActive, barcode_set,
                    last_barcode, save_location, order_input, sku_table,
                    files, wrote, tones, notice, saved >>

run_open_camera_with_fallback ==
    Probed("_open_camera_with_fallback",
           fallback_trace(call.frame[1], Attempts(call.frame[2]),
                          call.frame[3], <<>>))

run_scan_and_open_any_camera ==
    Probed("_scan_and_open_any_camera",
           scan_trace(0, call.frame[2], call.frame[3], <<>>))

run_detect_cameras ==
    Probed("detect_cameras", detect_trace(call.frame[2], call.frame[3]))

NextProbe ==
    \/ run_open_camera_with_fallback
    \/ run_scan_and_open_any_camera
    \/ run_detect_cameras

SpecProbe == InitProbe /\ [][NextProbe]_vars

\* =================================================== the older variant
\* src/Barcam.py on the same state; it has no display history and no
\* clear_session, and its handlers let I/O errors escape (not modelled: the
\* writes of the older variant succeed).

\* Barcam.py capture_image(frame, barcode_value), lines 229-250
old_capture_image(s, barcode_value, e) ==
    LET order_folder == Path(s.save, OrderNumber(e.order))
        file_exists == order_folder \in DOMAIN s.files
        lines == (IF file_exists THEN s.files[order_folder] ELSE <<>>)
                 \o <<Rec(barcode_value)>>
    IN  IF s.save = "" THEN [s EXCEPT !.notice = Append(@, "no_save_location")]
        ELSE [s EXCEPT
                !.saved = Append(@, Image(order_folder, barcode_value)),
                !.tones = IF "beepChk" \in e.flags THEN Append(@, "success") ELSE @,
                !.files = [q \in DOMAIN s.files \cup {order_folder} |->
                              IF q = order_folder THEN lines ELSE s.files[q]],
                !.set = @ \cup {barcode_value}]

\* Barcam.py update_frame lines 197-215: one decoded symbol
old_process_symbol(s, data, e) ==
    IF <<data>> = s.last THEN s
    ELSE old_capture_image([s EXCEPT !.last = <<data>>], data, e)

RECURSIVE old_process_all(_, _, _)
old_process_all(s, barcodes, e) ==
    IF barcodes = <<>> THEN s
    ELSE old_process_all(old_process_symbol(s, Head(barcodes), e),
                         Tail(barcodes), e)

\* a handler of the older variant that shows a dialog at most and leaves the
\* session as it is, but for what it did to the handles
OldNoEffect(name, flags, events, dialogs) ==
    /\ UNCHANGED << dialog, threads >>
    /\ call' = Call(name, <<>>, flags)
    /\ hw' = events
    /\ notice' = dialogs
    /\ wrote' = <<>>
    /\ tones' = <<>>
    /\ saved' = <<>>
    /\ UNCHANGED << barcode_set, last_barcode, save_location, order_input,
                    sku_table, files >>

\* Barcam.py start_camera, lines 146-169
old_start_camera ==
    \E serialOpens \in BOOLEAN, indexParses \in BOOLEAN, cameraOpens \in BOOLEAN :
        IF ~serialOpens
        THEN /\ OldNoEffect("start_camera", {"serialFail"}, <<>>, <<"serial_error">>)
             /\ UNCHANGED << capture, serial_port, timerActive >>
        ELSE IF ~indexParses
        THEN /\ OldNoEffect("start_camera", {"indexFail"},
                            <<Hw("serial", "open", serial_port)>>,
                            <<"invalid_camera_index">>)
             /\ serial_port' = "open"
             /\ UNCHANGED << capture, timerActive >>
        ELSE IF ~cameraOpens
        THEN /\ OldNoEffect("start_camera", {"cameraFail"},
                            <<Hw("serial", "open", serial_port),
                              Hw("capture", "open", capture)>>,
                            <<"camera_error">>)
             /\ serial_port' = "open"
             /\ capture' = "unopened"
             /\ UNCHANGED timerActive
        ELSE /\ OldNoEffect("start_camera", {},
                            <<Hw("serial", "open", serial_port),
                              Hw("capture", "open", capture)>>, <<>>)
             /\ serial_port' = "open"
             /\ capture' = "open"
             /\ timerActive' = TRUE

\* Barcam.py stop_camera lines 173-176: what it does to the handles
OldStopHw(cap, ser) ==
    (IF cap # "None" THEN <<Hw("capture", "release", cap)>> ELSE <<>>)
    \o (IF ser # "None" THEN <<Hw("serial", "close", ser)>> ELSE <<>>)

\* Barcam.py stop_camera, lines 171-182
old_stop_camera ==
    /\ timerActive' = FALSE
    /\ capture' = IF capture # "None" THEN "released" ELSE "None"
    /\ serial_port' = IF serial_port # "None" THEN "closed" ELSE "None"
    /\ hw' = OldStopHw(capture, serial_port)
    /\ barcode_set' = {}
    /\ last_barcode' = <<>>
    /\ UNCHANGED << dialog, threads >>
    /\ call' = Call("stop_camera", <<>>, {})
    /\ wrote' = <<>>
    /\ tones' = <<>>
    /\ notice' = <<>>
    /\ saved' = <<>>
    /\ UNCHANGED << save_location, order_input, sku_table, files >>

\* Barcam.py: a frame was read, by update_frame (lines 194-215) or by
\* capture_snapshot (line 256)
old_persist(name, barcodes, flags, s) ==
    /\ Fits(s)
    /\ barcode_set' = s.set
    /\ last_barcode' = s.last
    /\ files' = s.files
    /\ tones' = s.tones
    /\ notice' = s.notice
    /\ saved' = s.saved
    /\ wrote' = <<>>
    /\ hw' = <<Hw("capture", "read", capture)>>
    /\ UNCHANGED << dialog, threads >>
    /\ call' = Call(name, barcodes, flags)
    /\ UNCHANGED << capture, serial_port, timerActive, save_location,
                    order_input, sku_table >>

\* Barcam.py update_frame, lines 189-227, run by the timer's timeout; a read
\* from a capture that is not open gives ret = False
old_update_frame ==
    /\ timerActive
    /\ \/ /\ OldNoEffect("update_frame", {"readFail"},
                         <<Hw("capture", "read", capture)>>, <<>>)
          /\ UNCHANGED << capture, serial_port, timerActive >>
       \/ /\ capture = "open"
          /\ \E barcodes \in Frames, beep \in SUBSET {"beepChk"} :
                old_persist("update_frame", barcodes, {},
                            old_process_all(Work, barcodes, Env(beep)))

\* Barcam.py capture_snapshot, lines 252-256
old_capture_snapshot ==
    IF capture = "None"
    THEN /\ OldNoEffect("capture_snapshot", {"noCapture"}, <<>>, <<>>)
         /\ UNCHANGED << capture, serial_port, timerActive >>
    ELSE \/ /\ OldNoEffect("capture_snapshot", {"readFail"},
                           <<Hw("capture", "read", capture)>>, <<>>)
            /\ UNCHANGED << capture, serial_port, timerActive >>
         \/ /\ capture = "open"
            /\ \E beep \in SUBSET {"beepChk"} :
                  old_persist("capture_snapshot", <<>>, {},
                              old_capture_image(Work, manual, Env(beep)))

NextOld ==
    \/ old_start_camera
    \/ old_stop_camera
    \/ old_update_frame
    \/ old_capture_snapshot
    \/ select_folder
    \/ edit_order

SpecOld == Init /\ [][NextOld]_vars

\* ================================================================ claims
\* the identifiers of the symbols of a frame, in decoder order
Ids(f) == [i \in 1..Len(f) |-> extract_sku(strip(f[i]))]

\* the SKUs of the records of a log, in file order
Skus(lines) == [i \in 1..Len(Records(lines)) |-> Records(lines)[i].sku]

\* the identifiers an order log holds
LogIds(folder) ==
    IF folder \in DOMAIN files
    THEN { Skus(files[folder])[i] : i \in 1..Len(Skus(files[folder])) }
    ELSE {}

\* the folder of the current order: where capture_image writes now
CurrentFolder ==
    Path(IF save_location = "" THEN CWD ELSE save_location,
         OrderNumber(order_input))

\* the handler that ran last
Ran(name) == call.name = name
StartSucceeded ==
    Ran("start_camera") /\ call.flags \cap {"serialFail", "cameraFail"} = {}

\* C1: the dedup set is the identifiers of the current order's log plus those
\* recorded in the current Running period.  Read at its most lenient: the
\* log's identifiers are all in the set, and while no session is Running
\* (nothing can have been recorded in a current period) the set holds nothing
\* else.
C1_SetIsLogPlusPeriod ==
    /\ LogIds(CurrentFolder) \subseteq barcode_set
    /\ ~timerActive => barcode_set \subseteq LogIds(CurrentFolder)

\* C2: when start_camera returns after the selected serial port failed to
\* open, no capture device is open or held and the tick is not running.
C2_SerialFailureLeavesNoDevice ==
    (Ran("start_camera") /\ "serialFail" \in call.flags)
        => (capture = "None" /\ ~timerActive)

\* C3: when start_camera returns after the serial link opened but no camera
\* could be opened, the serial link is closed and self.serial_port is empty.
C3_CameraFailureClosesSerial ==
    (Ran("start_camera") /\ "cameraFail" \in call.flags)
        => serial_port = "None"

\* C4: stop_camera can always run; after it the tick timer is inactive and
\* neither a device nor a serial link is held; it releases or closes only a
\* handle that is open, and each held handle once; a stop right after a stop
\* changes no session state and touches no handle.
C4_StopIdempotent ==
    [][ /\ ENABLED stop_camera
        /\ call'.name = "stop_camera" =>
             /\ ~timerActive' /\ capture' = "None" /\ serial_port' = "None"
             /\ \A i \in 1..Len(hw') : hw'[i].was = "open"
             /\ hw' = (IF capture = "open"
                       THEN <<Hw("capture", "release", "open")>> ELSE <<>>)
                      \o (IF serial_port = "open"
                          THEN <<Hw("serial", "close", "open")>> ELSE <<>>)
             /\ UNCHANGED << barcode_set, last_barcode, save_location,
                             order_input, sku_table, files >>
             /\ call.name = "stop_camera" =>
                  /\ hw' = <<>>
                  /\ UNCHANGED << capture, serial_port, timerActive >>
      ]_vars

\* C4 witness: a stop that found a device and a serial link held has run
C4_Witness ==
    /\ Ran("stop_camera")
    /\ hw = <<Hw("capture", "release", "open"), Hw("serial", "close", "open")>>

\* C5: after stop_camera returns the dedup set is empty and the last-seen
\* identifier is cleared.
C5_StopClearsDedup ==
    Ran("stop_camera") => (barcode_set = {} /\ last_barcode = <<>>)

\* C6: no handler reads from or releases a capture device that has been
\* released.
C6_NoUseAfterRelease ==
    \A i \in 1..Len(hw) :
        (hw[i].dev = "capture" /\ hw[i].op \in {"read", "release"})
            => hw[i].was # "released"

\* C7: a tick whose read fails ends in Stopped within the tick (timer
\* cancelled, device released, serial link closed), reports the failure,
\* persists nothing and changes no dedup state; a tick runs only while the
\* timer is active, and only start_camera makes the timer active again.
C7_ReadFailureStops ==
    [][ /\ (call'.name = "update_frame" /\ "readFail" \in call'.flags) =>
             /\ ~timerActive' /\ capture' = "None" /\ serial_port' = "None"
             /\ hw' = <<Hw("capture", "read", "open"),
                        Hw("capture", "release", "open")>>
                      \o (IF serial_port = "open"
                          THEN <<Hw("serial", "close", "open")>> ELSE <<>>)
             /\ notice' = <<"camera_disconnected">>
             /\ saved' = <<>> /\ wrote' = <<>> /\ tones' = <<>>
             /\ UNCHANGED << files, barcode_set, last_barcode, sku_table,
                             save_location >>
             /\ ~(ENABLED update_frame)'
        /\ call'.name = "update_frame" => timerActive
        /\ (~timerActive /\ timerActive') => call'.name = "start_camera"
      ]_vars

\* C7 witness: a tick with a failed read has run while a serial link was held
C7_Witness ==
    /\ Ran("update_frame") /\ "readFail" \in call.flags
    /\ Len(hw) = 3

\* the symbols of a frame that are new when the loop reaches them: the
\* identifier is not in the set and no earlier symbol of the frame carries it
NewAt(f, seen, i) ==
    /\ Ids(f)[i] \notin seen
    /\ \A j \in 1..(i - 1) : Ids(f)[j] # Ids(f)[i]
RECURSIVE Fresh(_, _, _)
Fresh(f, seen, i) ==
    IF i > Len(f) THEN <<>>
    ELSE (IF NewAt(f, seen, i) THEN <<f[i]>> ELSE <<>>) \o Fresh(f, seen, i + 1)

\* the SKUs of the records of the current order's log
LogSkus(fs, folder) == IF folder \in DOMAIN fs THEN Skus(fs[folder]) ELSE <<>>

\* a tick that read a frame and in which no call failed
CleanTick == call'.name = "update_frame" /\ call'.flags = {}

C9_SeenSymbolHasNoEffect ==
    [][ (call'.name = "update_frame"
           /\ call'.flags \cap {"readFail", "noCapture", "raised"} = {}) =>
          LET f == call'.frame
              new == Fresh(f, barcode_set, 1)
              folder == CurrentFolder'
              g == call'.flags
          IN  /\ barcode_set' = barcode_set \cup {Ids(new)[i] : i \in 1..Len(new)}
              /\ sku_table' = sku_table \o Ids(new)
              /\ saved' = IF "imgFail" \in g THEN <<>>
                          ELSE [i \in 1..Len(new) |-> Image(folder, Ids(new)[i])]
              /\ IF "logFail" \in g \/ new = <<>> THEN files' = files
                 ELSE IF "logCut" \in g
                 THEN /\ LogSkus(files', folder) = LogSkus(files, folder)
                      /\ \A p \in DOMAIN files : files'[p] = files[p]
                 ELSE /\ LogSkus(files', folder) = LogSkus(files, folder) \o Ids(new)
                      /\ \A p \in DOMAIN files \ {folder} :
                            p \in DOMAIN files' /\ files'[p] = files[p]
              /\ wrote' = IF serial_port = "None" \/ "serFail" \in g THEN <<>>
                          ELSE [i \in 1..Len(new) |-> strip(new[i]) \o <<"\n">>]
              /\ Len(tones') <= 2 * Len(new)
              /\ last_barcode' = IF new = <<>> THEN last_barcode
                                 ELSE <<strip(new[Len(new)])>>
      ]_vars

\* C9 witness: a tick has decoded two symbols, one already seen and one new,
\* and persisted exactly the new one
C9_Witness ==
    /\ Ran("update_frame") /\ call.flags = {}
    /\ Len(call.frame) = 2 /\ Ids(call.frame)[1] # Ids(call.frame)[2]
    /\ Len(saved) = 1 /\ Len(wrote) = 1
    /\ LogSize(files) = 2

\* C10: after a successful start_camera that replayed an existing log, the
\* dedup set and the display history hold exactly the identifiers of the
\* records capture_image appended, in append order.
C10_ReplayRoundTrip ==
    (StartSucceeded /\ save_location # ""
       /\ Path(save_location, OrderNumber(order_input)) \in DOMAIN files)
        => /\ sku_table = LogSkus(files, CurrentFolder)
           /\ barcode_set = LogIds(CurrentFolder)

\* the identifier as the description words it, on the text itself
Max(S) == CHOOSE x \in S : \A y \in S : y <= x
Trimmed(p) ==
    LET ink == { i \in 1..Len(p) : p[i] \notin Whitespace }
    IN  IF ink = {} THEN <<>> ELSE SubSeq(p, Min(ink), Max(ink))
CutAt(t, chars) ==
    LET at == { i \in 1..Len(t) : t[i] \in chars }
    IN  IF at = {} THEN t ELSE SubSeq(t, 1, Min(at) - 1)
Identifier(p) == CutAt(CutAt(Trimmed(p), Whitespace), {"-"})
SkuExtra == <<"S", "K", "U", "-", "1", "2", "3", "4", " ", "e", "x", "t", "r", "a">>
PlainSku == <<" ", " ", "p", "l", "a", "i", "n", "s", "k", "u", " ", " ">>
\* C12: the identifier of a payload is the payload trimmed of surrounding
\* whitespace, cut at its first whitespace run and then cut before its first
\* '-'; "SKU-1234 extra" gives "SKU", "  plainsku  " gives "plainsku", and a
\* payload with neither '-' nor whitespace is its own identifier.
C12_IdentifierOfPayload ==
    /\ Ran("extract_sku") =>
         /\ barcode_set = {Identifier(call.frame[1])}
         /\ (\A i \in 1..Len(call.frame[1]) :
                call.frame[1][i] \notin Whitespace \cup {"-"})
            => barcode_set = {call.frame[1]}
    /\ extract_sku(strip(SkuExtra)) = Str3("S", "K", "U")
    /\ extract_sku(strip(PlainSku)) = SubSeq(PlainSku, 3, 10)

\* C12 witness: the identifier of "\tS-S " has been computed
C12_Witness ==
    /\ Ran("extract_sku")
    /\ call.frame[1] = <<"\t", "S", "-", "S">>
    /\ barcode_set = {Str1("S")}

\* C11: the dedup set is empty after clear_session, and after a start_camera
\* that replayed the current order's log (or found none) its size is the
\* number of distinct identifiers in that log.
C11_SizeAfterClearAndReplay ==
    /\ Ran("clear_session") => Cardinality(barcode_set) = 0
    /\ (StartSucceeded /\ save_location # "")
         => Cardinality(barcode_set) = Cardinality(LogIds(CurrentFolder))

\* C13: a capture_snapshot with no device held reports an error and does no
\* I/O: no device read, no image, no log line.
C13_SnapshotWithoutDeviceReports ==
    (Ran("capture_snapshot") /\ "noCapture" \in call.flags)
        => /\ notice # <<>>
           /\ hw = <<>> /\ saved = <<>>

\* C14: a snapshot whose read and writes succeed writes one image and appends
\* one record, both under "manual", whatever the dedup set holds, and leaves
\* the set, the last payload and the display history as they are.
C14_SnapshotBypassesDedup ==
    [][ (call'.name = "capture_snapshot" /\ call'.flags = {}) =>
          /\ saved' = << Image(CurrentFolder', manual) >>
          /\ LogSkus(files', CurrentFolder')
               = LogSkus(files, CurrentFolder') \o <<manual>>
          /\ UNCHANGED << barcode_set, last_barcode, sku_table >>
      ]_vars

\* C14 witness: with "manual" in the dedup set (replayed from the log), a
\* second snapshot has appended a second "manual" record
C14_Witness ==
    /\ Ran("capture_snapshot") /\ call.flags = {}
    /\ manual \in barcode_set
    /\ saved = << Image(CurrentFolder, manual) >>
    /\ LogSkus(files, CurrentFolder) = <<manual, manual>>

\* C15: in a tick whose log appends fail, the image of every new symbol is
\* written and stays, every new identifier is in the dedup set after the
\* tick, and no record is added.
C15_LogFailureKeepsImageAndMark ==
    [][ (call'.name = "update_frame"
           /\ call'.flags \cap {"logFail", "logCut"} # {}) =>
          LET new == Fresh(call'.frame, barcode_set, 1)
          IN  /\ new # <<>>
              /\ saved' = [i \in 1..Len(new) |-> Image(CurrentFolder', Ids(new)[i])]
              /\ \A i \in 1..Len(new) : Ids(new)[i] \in barcode_set'
              /\ LogSkus(files', CurrentFolder') = LogSkus(files, CurrentFolder')
      ]_vars

\* C15 witness: a tick has written the image of "A" while the log could not be
\* opened; "A" is in the set and in no log
C15_Witness ==
    /\ Ran("update_frame") /\ "logFail" \in call.flags
    /\ saved = << Image(CurrentFolder, Str1("A")) >>
    /\ Str1("A") \in barcode_set
    /\ files = <<>>

\* C16: no failure of a persistence step (folder creation, image write, log
\* write) leaves update_frame as an exception.
C16_PersistFailureStaysInTick ==
    Ran("update_frame") => "raised" \notin call.flags

\* a is a prefix of b
IsPrefix(a, b) == Len(a) <= Len(b) /\ SubSeq(b, 1, Len(a)) = a

\* C17: no step removes a log or changes a line of one: every log is a prefix
\* of what it is after the step.
C17_LogAppendOnly ==
    [][ \A p \in DOMAIN files :
           p \in DOMAIN files' /\ IsPrefix(files[p], files'[p]) ]_vars

\* C17 witness: a tick has appended a record to a log that held one
C17_Witness ==
    /\ Ran("update_frame") /\ Len(saved) = 1
    /\ Len(LogSkus(files, CurrentFolder)) = 2

\* C18: every log that holds a line starts with the header and holds no
\* other header line.
C18_HeaderOnceAndFirst ==
    \A p \in DOMAIN files :
        files[p] # <<>> =>
            /\ Head(files[p]).hdr
            /\ \A i \in 2..Len(files[p]) : ~files[p][i].hdr

\* C19: no scanned identifier is in two records of one log.
C19_FirstOccurrenceOnly ==
    \A p \in DOMAIN files :
        \A i, j \in 1..Len(Skus(files[p])) :
            (i # j /\ Skus(files[p])[i] = Skus(files[p])[j])
                => Skus(files[p])[i] = manual

\* C20: for one new scan with a serial link open, the success tone and the
\* failure tone are never both played.
C20_OneToneForOneScan ==
    (Ran("update_frame") /\ Len(call.frame) = 1)
        => ~(\E i, j \in 1..Len(tones) :
                tones[i] = "success" /\ tones[j] = "failure")

\* C21: what a tick writes to the serial link is, for each write, the
\* identifier of a symbol of its frame followed by one newline.
C21_SerialGetsIdentifier ==
    Ran("update_frame") =>
        \A i \in 1..Len(wrote) :
            \E k \in 1..Len(call.frame) :
                wrote[i] = Ids(call.frame)[k] \o <<"\n">>

\* C22: every symbol the loop of update_frame has gone over, whatever its
\* payload, has been given an identifier that is now in the dedup set.
C22_NoSymbolDropped ==
    call.name \in {"extract_sku", "continue"} => barcode_set # {}

\* C24: after a successful start_camera the log the session will write to
\* has been replayed: the display history has one row for each of its
\* records, and if it holds records the dedup set is not empty.
C24_PriorLogReplayedAtStart ==
    StartSucceeded =>
        /\ Len(sku_table) = Len(LogSkus(files, CurrentFolder))
        /\ LogIds(CurrentFolder) # {} => barcode_set # {}

\* C25: a start_camera that fails leaves the dedup set, the last-seen
\* payload, the display history, the logs, the handles and the timer as they
\* were, and the session is not Running after it.
C25_FailedStartChangesNothing ==
    [][ (call'.name = "start_camera"
            /\ call'.flags \cap {"serialFail", "cameraFail"} # {})
        => /\ UNCHANGED << barcode_set, last_barcode, sku_table, files,
                           capture, serial_port, timerActive >>
           /\ ~timerActive' ]_vars

\* the backend strategies for one platform as the description lists the
\* first two: the platform's preferred backend, where it has one, then the
\* generic default
Strategy(plat) ==
    (IF plat = "Linux" THEN <<"V4L2">>
     ELSE IF plat = "Windows" THEN <<"DSHOW">> ELSE <<>>) \o <<"ANY">>

\* some strategy opens index i
CanOpen(i, plat, w) ==
    \E k \in 1..Len(Strategy(plat)) : Outcome(i, Strategy(plat)[k], w) = "opens"

\* C26: _open_camera_with_fallback tries, for the one index, the platform's
\* preferred backend (where there is one) and then the generic default, in
\* that order and nothing after them; it stops at and returns the first
\* candidate that reports opened, and returns None exactly when each of
\* those candidates was tried and none opened.
C26_FallbackOrder ==
    Ran("_open_camera_with_fallback") =>
        LET idx  == call.frame[1]
            plat == call.frame[2]
            w    == call.frame[3]
            n    == Len(hw)
        IN  /\ n \in 1..Len(Strategy(plat))
            /\ \A i \in 1..n :
                  /\ hw[i].index = idx
                  /\ hw[i].backend = Strategy(plat)[i]
                  /\ hw[i].outcome = Outcome(idx, Strategy(plat)[i], w)
                  /\ (hw[i].end = "returned") = (hw[i].outcome = "opens")
            /\ \A i \in 1..(n - 1) : hw[i].outcome # "opens"
            /\ ("cap" \in call.flags) = (hw[n].outcome = "opens")
            /\ ("None" \in call.flags) =
                  (n = Len(Strategy(plat)) /\ ~CanOpen(idx, plat, w))

\* C26 witness: on Linux the preferred backend did not open the index and the
\* default did
C26_Witness ==
    /\ Ran("_open_camera_with_fallback") /\ "cap" \in call.flags
    /\ call.frame[2] = "Linux"
    /\ Len(hw) = 2 /\ hw[1].end = "released" /\ hw[2].backend = "ANY"

\* C26 as first stated: where the platform has a backend of its own, None is
\* returned only after a further platform-specific candidate was tried as
\* the last resort, after the default.
C26_LastResortTried ==
    (Ran("_open_camera_with_fallback") /\ "None" \in call.flags
        /\ call.frame[2] \in {"Linux", "Windows"})
    => /\ Len(hw) = 3
       /\ hw[3].backend \notin {"ANY", hw[1].backend}

\* C27: _scan_and_open_any_camera returns a handle exactly when some index
\* in 0..max_scan opens, and then one on the lowest such index.
C27_ScanCoversIndexes ==
    Ran("_scan_and_open_any_camera") =>
        LET plat == call.frame[2]
            w    == call.frame[3]
            open == { i \in 0..max_scan : CanOpen(i, plat, w) }
        IN  /\ ("cap" \in call.flags) = (open # {})
            /\ "cap" \in call.flags => hw[Len(hw)].index = Min(open)

C23_TicksNeverOverlap ==
    ~(dialog # <<>> /\ Ran("update_frame") /\ "inDialog" \notin call.flags)

\* C29: a tick hands its side effects off: update_frame itself writes
\* nothing to the serial link.
C29_TickWritesNothingItself ==
    Ran("update_frame") => wrote = <<>>

\* C30: a beep thread holds nothing but its success flag, and a step of a
\* beep thread changes neither the handles, nor what was done to them or
\* written to the link, nor the timer, the dedup set, the last payload, the
\* display history, the folder or the logs.
C30_ThreadsTouchNothing ==
    [][ /\ \A i \in 1..Len(threads') :
             /\ DOMAIN threads'[i] = {"success"}
             /\ threads'[i].success \in BOOLEAN
        /\ Len(threads') < Len(threads) =>
             UNCHANGED << capture, serial_port, hw, wrote, timerActive,
                          barcode_set, last_barcode, sku_table,
                          save_location, files >> ]_vars

\* C30 witness: the thread a tick started for its success tone has ended
\* while the session is Running with a serial link held
C30_Witness ==
    /\ Ran("update_frame") /\ tones = <<"success">> /\ threads = <<>>
    /\ timerActive /\ serial_port = "open" /\ wrote # <<>>

\* C31: a start_camera whose opens succeed, called while no device is held
\* and the timer is stopped (Idle, or Stopped after stop_camera or a failed
\* read), leaves the session Running: the timer is active and the capture
\* field holds a device opened by this call.
C31_StartReentersRunning ==
    [][ (call'.name = "start_camera"
            /\ call'.flags \cap {"serialFail", "cameraFail"} = {}
            /\ ~timerActive /\ capture = "None")
        => /\ timerActive'
           /\ capture' = "open"
           /\ \E i \in 1..Len(hw') : hw'[i] = Hw("capture", "open", "None")
           /\ ("serialSel" \in call'.flags) = (serial_port' = "open") ]_vars

\* C31 witness: a start has re-entered Running after an earlier Running
\* period, which left a log, had been stopped
C31_Witness ==
    /\ StartSucceeded /\ timerActive /\ capture = "open"
    /\ Hw("capture", "open", "None") \in { hw[i] : i \in 1..Len(hw) }
    /\ DOMAIN files # {}

\* C32: start_camera never opens a device or a link over one that is held
\* and open, and never drops a held open link by setting the field to None:
\* a handle that is open before the call is the one held after it, or has
\* been released or closed by the call.
C32_NoHandleOverwritten ==
    [][ call'.name = "start_camera" =>
          /\ \A i \in 1..Len(hw') :
                hw'[i].op = "open" => hw'[i].was # "open"
          /\ (serial_port = "open" /\ serial_port' = "None") =>
                \E i \in 1..Len(hw') : hw'[i] = Hw("serial", "close", "open")
       ]_vars

\* C33: in the one Running period of a window started with the order field
\* empty and no folder chosen, every log that is written is the log of the
\* order in effect at the start, NoOrder in the working directory.
C33_OneLogPerRunningPeriod ==
    \A p \in DOMAIN files : p = Path(CWD, NoOrder)

\* C34: the last-seen payload is None or a payload whose identifier is in
\* the dedup set.
C34_LastSeenInSet ==
    last_barcode = <<>> \/ extract_sku(last_barcode[1]) \in barcode_set

====
